---- MODULE Spec2Model ----
(***************************************************************************)
(* Model of scripts/check_set_news.py (with scripts/mailer.py): repeated   *)
(* runs of main() sharing one state file, state.json.                      *)
(*                                                                         *)
(* A news item is identified by its id.  Ids are 0..MaxId; id 0 stands for *)
(* an id string that holds a lone surrogate (the API's JSON may carry the  *)
(* escape \ud800, which r.json() decodes to such a string).  A headline is *)
(* a sequence of characters.                                               *)
(***************************************************************************)
EXTENDS Integers, Sequences, FiniteSets, TLC

\* ---------------------------------------------------------------- bounds
MaxId == 2
MaxFetch == 2
MaxCap == 2

Ids == 0..MaxId
Caps == -1..MaxCap

\* ------------------------------------------------------------- sequences
Range(s) == {s[i] : i \in 1..Len(s)}

Min(a, b) == IF a < b THEN a ELSE b

Max(a, b) == IF a > b THEN a ELSE b

\* Python's s[:n]: the first n elements, and for a negative n all but the
\* last -n elements.
SliceTo(s, n) ==
    IF n >= 0 THEN SubSeq(s, 1, Min(n, Len(s)))
    ELSE SubSeq(s, 1, Max(Len(s) + n, 0))

\* Python's `a in b` on strings.
IsSubstring(a, b) ==
    \E i \in 0..Len(b) : i + Len(a) <= Len(b) /\ SubSeq(b, i + 1, i + Len(a)) = a

\* ------------------------------------------------------------ news items
Target == <<"R", "A">>

\* The headline the API reports for each item.
HeadlineOf(id) ==
    CASE id % 3 = 2 -> Target \o <<"B">>
      [] OTHER -> Target

Filters == {<< >>, Target}
Modes == {"exact", "contains", "regex"}

Feeds == UNION {[1..n -> Ids] : n \in 0..MaxFetch}

\* str.encode("utf-8") succeeds on the id.
Encodable(id) == id # 0

\* ------------------------------------------------------------ state file
\* The content of state.json:
\*   absent     no file
\*   invalid    not JSON (an empty file included)
\*   nonobject  JSON, but not an object (a list, a number, null)
\*   badseen    an object whose seen_ids is not iterable or holds an
\*              unhashable element
\*   nokey      an object without seen_ids
\*   object     an object with a list of strings under seen_ids
NoIdsKinds == {"absent", "invalid", "nonobject", "badseen", "nokey"}

FileContents ==
    [kind : NoIdsKinds, seen_ids : {{}}] \cup [kind : {"object"}, seen_ids : SUBSET Ids]

\* ----------------------------------------------------------------- state
VARIABLES
    stateFile,        \* content of state.json
    HEADLINE_FILTER,  \* module constant, read from the environment at import
    FILTER_MODE,      \* module constant, read from the environment at import
    pc,               \* position of the running main(); "idle" between runs
    force_send,       \* main's locals ...
    dry_run,
    max_new_items,
    seen,
    fetch,            \* how make_session and fetch_news ended in this run
    items,            \* the list fetch_news returned
    filtered_items,
    all_new_items,
    notify_items,
    blocks,
    page,             \* what the detail fetch of the latest item gave
    sent,             \* calls of send_email in this run
    saves,            \* calls of save_state in this run
    delivery,         \* how the delivery step of this run ended
    outcome,          \* how this run ended
    fileAtStart,      \* history: state.json as it was when the run started
    call,             \* the latest call of a pure function, with its result
    audit,            \* whether the histories across runs (below) are kept;
                      \*   without it they stay as they start
    last,             \* history: how the previous run ended, if it found a
                      \*   new matching item ("none" if it found none)
    lastItems,        \* history: what that run fetched
    pending,          \* history: the batch of a run whose send_email raised
    notified,         \* history: ids in the digest of a run that committed
    cut               \* history: ids of new items that the cap kept out of
                      \*   the digest of a run that committed

vars ==
    <<stateFile, HEADLINE_FILTER, FILTER_MODE, pc, force_send, dry_run,
      max_new_items, seen, fetch, items, filtered_items, all_new_items, notify_items,
      blocks, page, sent, saves, delivery, outcome, fileAtStart, call, audit,
      last, lastItems, pending, notified, cut>>

history == <<last, lastItems, pending>>

config == <<HEADLINE_FILTER, FILTER_MODE>>

locals ==
    <<force_send, dry_run, max_new_items, seen, filtered_items, all_new_items,
      notify_items, blocks>>

\* --------------------------------------------------------- pure functions
headline_matchesLenient(headline, filter, mode) ==
    IF filter = << >> THEN TRUE
    ELSE IF mode = "exact" THEN headline = filter
    ELSE IsSubstring(filter, headline)

\* headline_matches, with the module constants as parameters.
headline_matches(headline, filter, mode) ==
    IF filter = << >> THEN TRUE
    ELSE IF mode = "contains" THEN IsSubstring(filter, headline)
    ELSE headline = filter

\* main's headline filter loop over the fetched items.
FilterItems(its, filter, mode) ==
    SelectSeq(its, LAMBDA id : headline_matches(HeadlineOf(id), filter, mode))

\* main's dedupe loop: the filtered items whose id is not in seen.
NewItems(filtered, seenSet) ==
    SelectSeq(filtered, LAMBDA id : id \notin seenSet)

BatchLast(filtered, seenSet, force) ==
    IF NewItems(filtered, seenSet) = << >> /\ force
    THEN IF filtered = << >> THEN << >> ELSE <<filtered[Len(filtered)]>>
    ELSE NewItems(filtered, seenSet)

\* The batch after the force-send fallback.
Batch(filtered, seenSet, force) ==
    IF NewItems(filtered, seenSet) = << >> /\ force
    THEN SliceTo(filtered, 1)
    ELSE NewItems(filtered, seenSet)

NeverReturns(batch) == FALSE

\* main returns before the detail fetches when the batch is empty.
ReturnsNoNews(batch) == batch = << >>

\* The cap: the items that go into the digest.
NotifyItems(batch, cap) == SliceTo(batch, cap)

\* load_state followed by set(state.get("seen_ids", [])): "crash" where
\* main raises, else the seen set.
LoadCrashes(file) == file.kind \in {"nonobject", "badseen"}

LoadedSeen(file) == IF file.kind = "object" THEN file.seen_ids ELSE {}

\* save_state: Path.write_text opens state.json for writing, which empties
\* it, and then encodes the text; the encoding raises on a lone surrogate
\* and leaves the file empty.
WriteSucceeds(seenSet) == \A id \in seenSet : Encodable(id)

Written(seenSet) ==
    IF WriteSucceeds(seenSet)
    THEN [kind |-> "object", seen_ids |-> seenSet]
    ELSE [kind |-> "invalid", seen_ids |-> {}]

\* No pure function has been called.
NoCall == [fn |-> "none"]

\* ------------------------------------------------------------------ Init
\* What state.json may hold before the first run: anything that can be read
\* from a UTF-8 file.
InitialFiles == {f \in FileContents : WriteSucceeds(f.seen_ids)}

Start ==
    /\ stateFile \in InitialFiles
    /\ HEADLINE_FILTER \in Filters
    /\ FILTER_MODE \in Modes
    /\ pc = "idle"
    /\ force_send = FALSE
    /\ dry_run = FALSE
    /\ max_new_items = 0
    /\ seen = {}
    /\ fetch = "none"
    /\ items = << >>
    /\ filtered_items = << >>
    /\ all_new_items = << >>
    /\ notify_items = << >>
    /\ blocks = << >>
    /\ page = "none"
    /\ sent = 0
    /\ saves = 0
    /\ delivery = "none"
    /\ outcome = "none"
    /\ fileAtStart = stateFile
    /\ call = NoCall
    /\ last = "none"
    /\ lastItems = << >>
    /\ pending = << >>
    /\ notified = {}
    /\ cut = {}

\* The runs alone.
Init == Start /\ audit = FALSE

\* The runs, with the histories across runs kept.
InitAudit == Start /\ audit = TRUE

\* --------------------------------------------------------------- actions
\* This run found a new matching item (its batch is not the force-send one).
HadNew == NewItems(filtered_items, LoadedSeen(fileAtStart)) # << >>

\* The end of a run that returns or raises before the delivery step.
EndEarly(how) ==
    /\ pc' = "done"
    /\ outcome' = how
    /\ last' = "none"
    /\ lastItems' = << >>
    /\ pending' = << >>

SmtpTestRunGoesOn ==
    /\ pc = "idle"
    /\ \E force \in BOOLEAN, dry \in BOOLEAN, raises \in BOOLEAN :
        /\ force_send' = force
        /\ dry_run' = dry
        /\ sent' = sent + 1
        /\ outcome' = IF raises THEN "smtp_test_failed" ELSE "smtp_test"
        /\ pc' = "fetch"
        /\ UNCHANGED history
    /\ fileAtStart' = stateFile
    /\ seen' = LoadedSeen(stateFile)
    /\ UNCHANGED <<stateFile, config, audit, call, page, max_new_items, fetch, items,
                   filtered_items, all_new_items, notify_items, blocks, saves,
                   delivery, notified, cut>>

\* main with SMTP_TEST=1: one test email, then return.
SmtpTestRun ==
    /\ pc = "idle"
    /\ \E force \in BOOLEAN, dry \in BOOLEAN, raises \in BOOLEAN :
        /\ force_send' = force
        /\ dry_run' = dry
        /\ sent' = sent + 1
        /\ EndEarly(IF raises THEN "smtp_test_failed" ELSE "smtp_test")
    /\ fileAtStart' = stateFile
    /\ UNCHANGED <<stateFile, config, audit, call, page, max_new_items, seen, fetch, items,
                   filtered_items, all_new_items, notify_items, blocks, saves,
                   delivery, notified, cut>>

\* main up to the fetch: the flags, load_state, the seen set, the cap.
LoadState ==
    /\ pc = "idle"
    /\ fileAtStart' = stateFile
    /\ \E force \in BOOLEAN, dry \in BOOLEAN, cap \in Caps :
        /\ force_send' = force
        /\ dry_run' = dry
        /\ IF LoadCrashes(stateFile)
           THEN /\ EndEarly("load_crashed")
                /\ UNCHANGED <<seen, max_new_items>>
           ELSE /\ seen' = LoadedSeen(stateFile)
                /\ max_new_items' = cap
                /\ pc' = "fetch"
                /\ outcome' = "running"
                /\ UNCHANGED history
    /\ UNCHANGED <<stateFile, config, audit, call, page, fetch, items, filtered_items, all_new_items,
                   notify_items, blocks, sent, saves, delivery, notified, cut>>

\* make_session or fetch_news raises: a network error in the warm-up or in
\* the list request, a 403, another status raise_for_status rejects, or a
\* body that is not JSON.
FetchFailures == {"warmup_error", "network_error", "403", "http_error", "not_json"}

FetchFailsSwallowed ==
    /\ pc = "fetch"
    /\ \E cause \in FetchFailures : fetch' = cause
    /\ EndEarly("no_news")
    /\ UNCHANGED <<stateFile, config, audit, call, page, locals, items, sent, saves, delivery,
                   fileAtStart, notified, cut>>

FetchFails ==
    /\ pc = "fetch"
    /\ \E cause \in FetchFailures : fetch' = cause
    /\ EndEarly("fetch_failed")
    /\ UNCHANGED <<stateFile, config, audit, call, page, locals, items, sent, saves, delivery,
                   fileAtStart, notified, cut>>

\* fetch_news returns a list; main filters, dedupes, applies the force-send
\* fallback, returns on an empty batch, and cuts the batch to the cap.
Select ==
    /\ pc = "fetch"
    /\ \E fetched \in Feeds :
        LET filtered == FilterItems(fetched, HEADLINE_FILTER, FILTER_MODE)
            batch == Batch(filtered, seen, force_send)
        IN  /\ fetch' = "ok"
            /\ items' = fetched
            /\ filtered_items' = filtered
            /\ all_new_items' = batch
            /\ IF ReturnsNoNews(batch)
               THEN /\ EndEarly("no_news")
                    /\ UNCHANGED notify_items
               ELSE /\ notify_items' = NotifyItems(batch, max_new_items)
                    /\ pc' = "extract"
                    /\ last' = "none"
                    /\ lastItems' = << >>
                    /\ pending' = << >>
                    /\ UNCHANGED outcome
    /\ UNCHANGED <<stateFile, config, audit, call, page, force_send, dry_run, max_new_items, seen,
                   blocks, sent, saves, delivery, fileAtStart, notified, cut>>

ExtractItemAborts ==
    /\ pc = "extract"
    /\ Len(blocks) < Len(notify_items)
    /\ \E got \in {"fetch_failed", "no_fields", "fields"} :
        /\ page' = got
        /\ IF got = "fields"
           THEN /\ blocks' = Append(blocks, "summary")
                /\ UNCHANGED <<pc, outcome>>
           ELSE /\ pc' = "done"
                /\ outcome' = "extract_failed"
                /\ UNCHANGED blocks
    /\ UNCHANGED <<stateFile, config, audit, call, force_send, dry_run, max_new_items,
                   seen, fetch, items, filtered_items, all_new_items, notify_items, sent,
                   saves, delivery, fileAtStart, history, notified, cut>>

\* One iteration of the loop over notify_items: the detail fetch fails, the
\* page yields no field, or it yields fields.
ExtractItem ==
    /\ pc = "extract"
    /\ Len(blocks) < Len(notify_items)
    /\ \E got \in {"fetch_failed", "no_fields", "fields"} :
        /\ page' = got
        /\ blocks' = Append(blocks, IF got = "fields" THEN "summary" ELSE "placeholder")
    /\ UNCHANGED <<stateFile, config, audit, call, pc, force_send, dry_run,
                   max_new_items, seen, fetch, items, filtered_items, all_new_items,
                   notify_items, sent, saves, delivery, outcome, fileAtStart, history,
                   notified, cut>>

DeliverPerItem ==
    /\ pc = "extract"
    /\ Len(blocks) = Len(notify_items)
    /\ \E smtp_host \in BOOLEAN, raises \in BOOLEAN :
        IF smtp_host /\ ~dry_run
        THEN /\ sent' = sent + Len(notify_items)
             /\ IF raises
                THEN /\ delivery' = "raised"
                     /\ pc' = "done"
                     /\ outcome' = "send_failed"
                     /\ last' = IF audit /\ HadNew THEN "send_failed" ELSE "none"
                     /\ lastItems' = IF audit /\ HadNew THEN items ELSE << >>
                     /\ pending' = IF audit THEN all_new_items ELSE << >>
                ELSE /\ delivery' = "sent"
                     /\ pc' = "commit"
                     /\ UNCHANGED <<outcome, history>>
        ELSE /\ delivery' = IF smtp_host THEN "dry_run" ELSE "printed"
             /\ pc' = "commit"
             /\ UNCHANGED <<sent, outcome, history>>
    /\ UNCHANGED <<stateFile, config, audit, call, page, locals, fetch, items, saves, fileAtStart,
                   notified, cut>>

DeliverSwallows ==
    /\ pc = "extract"
    /\ Len(blocks) = Len(notify_items)
    /\ \E smtp_host \in BOOLEAN, raises \in BOOLEAN :
        IF smtp_host /\ ~dry_run
        THEN /\ sent' = sent + 1
             /\ IF raises
                THEN /\ delivery' = "raised"
                     /\ pc' = "commit"
                     /\ UNCHANGED <<outcome, history>>
                ELSE /\ delivery' = "sent"
                     /\ pc' = "commit"
                     /\ UNCHANGED <<outcome, history>>
        ELSE /\ delivery' = IF smtp_host THEN "dry_run" ELSE "printed"
             /\ pc' = "commit"
             /\ UNCHANGED <<sent, outcome, history>>
    /\ UNCHANGED <<stateFile, config, audit, call, page, locals, fetch, items, saves, fileAtStart,
                   notified, cut>>

\* The delivery step: send_email, or a print under DRY_RUN or without
\* SMTP_HOST.  send_email may raise, which ends the run.
Deliver ==
    /\ pc = "extract"
    /\ Len(blocks) = Len(notify_items)
    /\ \E smtp_host \in BOOLEAN, raises \in BOOLEAN :
        IF smtp_host /\ ~dry_run
        THEN /\ sent' = sent + 1
             /\ IF raises
                THEN /\ delivery' = "raised"
                     /\ pc' = "done"
                     /\ outcome' = "send_failed"
                     /\ last' = IF audit /\ HadNew THEN "send_failed" ELSE "none"
                     /\ lastItems' = IF audit /\ HadNew THEN items ELSE << >>
                     /\ pending' = IF audit THEN all_new_items ELSE << >>
                ELSE /\ delivery' = "sent"
                     /\ pc' = "commit"
                     /\ UNCHANGED <<outcome, history>>
        ELSE /\ delivery' = IF smtp_host THEN "dry_run" ELSE "printed"
             /\ pc' = "commit"
             /\ UNCHANGED <<sent, outcome, history>>
    /\ UNCHANGED <<stateFile, config, audit, call, page, locals, fetch, items, saves, fileAtStart,
                   notified, cut>>

CommitIdsCapped == Range(notify_items)

\* The ids the commit loop adds to seen.
CommitIds == Range(all_new_items)

CommitBatchOnly ==
    /\ pc = "commit"
    /\ seen' = CommitIds
    /\ saves' = saves + 1
    /\ stateFile' = Written(seen')
    /\ outcome' = IF WriteSucceeds(seen') THEN "committed" ELSE "save_failed"
    /\ notified' = IF audit /\ WriteSucceeds(seen')
                   THEN notified \cup Range(notify_items)
                   ELSE notified
    /\ cut' = IF audit /\ WriteSucceeds(seen') /\ HadNew
              THEN cut \cup (Range(all_new_items) \ Range(notify_items))
              ELSE cut
    /\ last' = IF audit /\ HadNew THEN outcome' ELSE "none"
    /\ lastItems' = IF audit /\ HadNew THEN items ELSE << >>
    /\ pending' = << >>
    /\ pc' = "done"
    /\ UNCHANGED <<config, audit, call, page, force_send, dry_run, max_new_items, fetch, items,
                   filtered_items, all_new_items, notify_items, blocks, sent,
                   delivery, fileAtStart>>

\* The commit: every id of the batch joins seen, and save_state writes it.
Commit ==
    /\ pc = "commit"
    /\ seen' = seen \cup CommitIds
    /\ saves' = saves + 1
    /\ stateFile' = Written(seen')
    /\ outcome' = IF WriteSucceeds(seen') THEN "committed" ELSE "save_failed"
    /\ notified' = IF audit /\ WriteSucceeds(seen')
                   THEN notified \cup Range(notify_items)
                   ELSE notified
    /\ cut' = IF audit /\ WriteSucceeds(seen') /\ HadNew
              THEN cut \cup (Range(all_new_items) \ Range(notify_items))
              ELSE cut
    /\ last' = IF audit /\ HadNew THEN outcome' ELSE "none"
    /\ lastItems' = IF audit /\ HadNew THEN items ELSE << >>
    /\ pending' = << >>
    /\ pc' = "done"
    /\ UNCHANGED <<config, audit, call, page, force_send, dry_run, max_new_items, fetch, items,
                   filtered_items, all_new_items, notify_items, blocks, sent,
                   delivery, fileAtStart>>

\* The process exits; its memory is gone, state.json stays.
Exit ==
    /\ pc = "done"
    /\ pc' = "idle"
    /\ force_send' = FALSE
    /\ dry_run' = FALSE
    /\ max_new_items' = 0
    /\ seen' = {}
    /\ filtered_items' = << >>
    /\ all_new_items' = << >>
    /\ notify_items' = << >>
    /\ blocks' = << >>
    /\ page' = "none"
    /\ sent' = 0
    /\ saves' = 0
    /\ delivery' = "none"
    /\ outcome' = "none"
    /\ fetch' = "none"
    /\ items' = << >>
    /\ fileAtStart' = stateFile
    /\ UNCHANGED <<stateFile, config, audit, call, history, notified, cut>>

Next ==
    \/ SmtpTestRun
    \/ LoadState
    \/ FetchFails
    \/ Select
    \/ ExtractItem
    \/ Deliver
    \/ Commit
    \/ Exit

Spec == Init /\ [][Next]_vars

SpecAudit == InitAudit /\ [][Next]_vars

\* -------------------------------------------- the functions on their own
\* Strings are sequences over Chars, blank included.
MaxLen == 3

Chars == {"a", " ", "(", ")"}

Strings == UNION {[1..n -> Chars] : n \in 0..MaxLen}

\* str.strip(): without the leading and trailing blanks.
RECURSIVE LStrip(_)
LStrip(s) == IF s # << >> /\ Head(s) = " " THEN LStrip(Tail(s)) ELSE s

RECURSIVE RStrip(_)
RStrip(s) ==
    IF s # << >> /\ s[Len(s)] = " " THEN RStrip(SubSeq(s, 1, Len(s) - 1)) ELSE s

Strip(s) == RStrip(LStrip(s))

\* The values HEADLINE_FILTER can have: the environment's text, stripped.
FilterTexts == {Strip(s) : s \in Strings}

\* An item's headline, title and subject: the key is absent or null (None),
\* or it holds a string.
None == <<"None">>

HeadlineValues == {None, << >>, <<" ">>, <<"a">>, <<" ", "a">>, <<"(", ")">>}

HeadlineItems == [headline : HeadlineValues, title : HeadlineValues, subject : HeadlineValues]

\* Stands for the sentinel "(no headline)".
NoHeadline == <<"(", ")">>

extract_headline(item) ==
    LET usable(v) == v # None /\ Strip(v) # << >>
    IN  IF usable(item.headline) THEN Strip(item.headline)
        ELSE IF usable(item.title) THEN Strip(item.title)
        ELSE IF usable(item.subject) THEN Strip(item.subject)
        ELSE NoHeadline

\* The keys of parse_buyback_fields' dictionary, in its order:
\*   subject      เรื่อง
\*   report_date  วันที่รายงานผล
\*   method       วิธีการซื้อหุ้นคืน
\*   end_date     วันที่ครบกำหนดโครงการ
\*   board_date   วันที่คณะกรรมการมีมติ
\*   max_shares   จำนวนหุ้นซื้อคืนสูงสุดตามโครงการ (หุ้น)
\*   max_pct      %ของจำนวนหุ้นซื้อคืนสูงสุดต่อจำนวนหุ้นที่ชำระแล้ว
\*   buy_date     วันที่ซื้อหุ้นคืน
\*   shares       จำนวนหุ้นซื้อคืน(หุ้น)
\*   high         ราคาที่ซื้อต่อหุ้นหรือราคาสูงสุด(บาท/หุ้น)
\*   low          ราคาต่ำสุด(บาท/หุ้น)
\*   value        มูลค่ารวม(บาท)
\*   cum_shares   จำนวนรวมของหุ้นซื้อคืนในโครงการจนถึงปัจจุบัน
\*   pct_bought   %ของจำนวนหุ้นซื้อคืนต่อจำนวนหุ้นที่ชำระแล้ว
\*   cum_value    มูลค่ารวมที่ซื้อคืน(บาท)
\* and one more label, spelled differently from pct_bought:
\*   pct_buyback  %ของจำนวนหุ้นซื้อหุ้นคืนต่อจำนวนหุ้นที่ชำระแล้ว
FieldKeys ==
    {"subject", "report_date", "method", "end_date", "board_date", "max_shares",
     "max_pct", "buy_date", "shares", "high", "low", "value", "cum_shares",
     "pct_bought", "cum_value"}

\* The label parse_buyback_fields looks for to fill each key.
LabelOf(key) == IF key = "pct_bought" THEN "pct_buyback" ELSE key

Labels == FieldKeys \cup {"pct_buyback"}

\* A detail text is known by the labels that occur in it with a colon and a
\* value behind them.
PageTexts == SUBSET Labels

\* _pick: the value behind the label ("v"), or "" when the text has no such
\* label.
_pick(text, label) == IF label \in text THEN "v" ELSE ""

\* parse_buyback_fields: the dictionary of the picked values, the second look
\* for an empty pct_buyback entry (the dictionary has no such key), and the
\* entries with a value; a FieldMap is known by its keys.
parse_buyback_fields(page_text) ==
    LET picked == [k \in FieldKeys |-> _pick(page_text, LabelOf(k))]
        fields == IF "pct_buyback" \in DOMAIN picked /\ picked["pct_buyback"] = ""
                  THEN [k \in DOMAIN picked |->
                            IF k = "pct_buyback" THEN _pick(page_text, "pct_bought")
                            ELSE picked[k]]
                  ELSE picked
    IN  {k \in DOMAIN fields : fields[k] # ""}

\* A line of a block: its name, the fields whose values it shows, and the
\* fields it shows as an empty text.
Line(name, shown, empty) == [line |-> name, shown |-> shown, empty |-> empty]

Heading == <<Line("title", {}, {}), Line("time", {}, {}), Line("link", {}, {}),
             Line("", {}, {})>>

\* A line that is there when its field is in the FieldMap.
LineIf(fields, key) ==
    IF key \in fields THEN <<Line(key, {key}, {})>> ELSE << >>

\* A line made of several fields, there when one of `needed` has a value.
LineOf(fields, name, needed, used) ==
    IF needed \cap fields # {}
    THEN <<Line(name, used \cap fields, used \ fields)>>
    ELSE << >>

format_buyback_summary(fields) ==
    Heading
    \o LineIf(fields, "subject")
    \o LineIf(fields, "report_date")
    \o LineIf(fields, "method")
    \o LineIf(fields, "end_date")
    \o LineIf(fields, "board_date")
    \o LineOf(fields, "max", {"max_shares", "max_pct"}, {"max_shares", "max_pct"})
    \o (IF "buy_date" \in fields
        THEN <<Line("", {}, {}), Line("latest", {}, {})>>
             \o LineIf(fields, "buy_date")
             \o LineIf(fields, "shares")
             \o LineOf(fields, "price_range", {"low", "high"}, {"low", "high"})
             \o LineIf(fields, "value")
        ELSE << >>)
    \o (IF {"cum_shares", "cum_value", "pct_buyback"} \cap fields # {}
        THEN <<Line("", {}, {}), Line("cumulative", {}, {})>>
             \o LineOf(fields, "cum_shares", {"cum_shares"}, {"cum_shares", "pct_buyback"})
             \o LineIf(fields, "cum_value")
        ELSE << >>)

\* The block main appends when the FieldMap is empty.
PlaceholderBlock ==
    <<Line("title", {}, {}), Line("time", {}, {}), Line("link", {}, {}),
      Line("", {}, {}), Line("could_not_parse", {}, {})>>

\* The body of main's loop over notify_items, from the page text on
\* ("" stands for a failed detail fetch as well).
ComposeBlock(page_text) ==
    LET fields == parse_buyback_fields(page_text)
    IN  IF fields # {} THEN format_buyback_summary(fields) ELSE PlaceholderBlock

\* headline_matches is called.
CallHeadlineMatches ==
    /\ call = NoCall
    /\ \E headline \in Strings, filter \in FilterTexts, mode \in Modes :
        call' = [fn |-> "headline_matches", headline |-> headline, filter |-> filter,
                 mode |-> mode, result |-> headline_matches(headline, filter, mode)]
    /\ UNCHANGED <<stateFile, config, audit, page, pc, locals, fetch, items, sent, saves,
                   delivery, outcome, fileAtStart, history, notified, cut>>

\* The body of main's filter loop is run on an item.
CallFilterItem ==
    /\ call = NoCall
    /\ \E item \in HeadlineItems, filter \in FilterTexts, mode \in Modes :
        call' = [fn |-> "filter_item", item |-> item, filter |-> filter, mode |-> mode,
                 headline |-> extract_headline(item),
                 result |-> headline_matches(extract_headline(item), filter, mode)]
    /\ UNCHANGED <<stateFile, config, audit, page, pc, locals, fetch, items, sent, saves,
                   delivery, outcome, fileAtStart, history, notified, cut>>

\* parse_buyback_fields and the composition of the block are run on a text.
CallComposeBlock ==
    /\ call = NoCall
    /\ \E page_text \in PageTexts :
        call' = [fn |-> "compose_block", page_text |-> page_text,
                 fields |-> parse_buyback_fields(page_text),
                 block |-> ComposeBlock(page_text)]
    /\ UNCHANGED <<stateFile, config, audit, page, pc, locals, fetch, items, sent, saves,
                   delivery, outcome, fileAtStart, history, notified, cut>>

InitPure ==
    /\ Init
    /\ stateFile.kind = "absent"
    /\ HEADLINE_FILTER = << >>
    /\ FILTER_MODE = "exact"

NextPure ==
    \/ CallHeadlineMatches
    \/ CallFilterItem
    \/ CallComposeBlock

SpecPure == InitPure /\ [][NextPure]_vars

\* ---------------------------------------------------------------- claims
\* The delivery step of this run finished without raising.
Delivered == delivery \in {"sent", "dry_run", "printed"}

\* The batch of this run is the force-send demo item.
DemoRun == all_new_items # << >> /\ ~HadNew

\* C1: once an id was in the digest of a run that committed, no later run
\* has an item with that id in its digest.  (The force-send demo item, which
\* is sent again on purpose, is left aside.)
C1_AtMostOneNotification ==
    (pc = "commit" /\ ~DemoRun) => Range(notify_items) \cap notified = {}

\* C2: over consecutive runs whose fetches succeed, each distinct matched id
\* is in exactly one notification.  Stated in the part the cap does not
\* decide: with force-send off, no matched id is in the digest of this run
\* and in that of an earlier run as well.
NotificationsWith(id) ==
    (IF id \in notified THEN 1 ELSE 0) + (IF id \in Range(notify_items) THEN 1 ELSE 0)

C2_ExactlyOneNotification ==
    (pc = "commit" /\ fetch = "ok" /\ ~force_send) =>
        \A id \in Range(filtered_items) : NotificationsWith(id) <= 1

\* C3: a run that found a new matching item and notified it is followed, on
\* the same fetch result (and with force-send off), by a run that sends no
\* notification.
C3_Idempotent ==
    [][(/\ pc = "fetch"
        /\ last \in {"committed", "save_failed"}
        /\ ~force_send
        /\ fetch' = "ok"
        /\ items' = lastItems)
       => (pc' = "done" /\ outcome' = "no_news")]_vars

\* C4: a run that commits a batch larger than the cap has all ids of the
\* batch in state.json, and no id the cap kept out of its digest is in the
\* digest of a later run.  (The force-send demo item is left aside.)
C4_CapNoRepeats ==
    /\ (pc = "done" /\ outcome = "committed") =>
            Range(all_new_items) \subseteq stateFile.seen_ids
    /\ (pc = "commit" /\ ~DemoRun) => Range(notify_items) \cap cut = {}

\* C5: every id that was in state.json's seen_ids before a run is still in
\* seen_ids after the run, whatever the run's outcome.
C5_SeenMonotonic ==
    pc = "done" => fileAtStart.seen_ids \subseteq stateFile.seen_ids

\* C6: a run adds to seen_ids only ids of its batch, and after a run that
\* committed (save_state returned) state.json holds exactly the seen set
\* loaded at the start of the run together with the ids of the whole batch,
\* whatever the cap let into the digest.
C6_CommitAddsBatch ==
    pc = "done" =>
        /\ (stateFile.seen_ids \ fileAtStart.seen_ids) \subseteq Range(all_new_items)
        /\ outcome = "committed" =>
            stateFile = [kind |-> "object",
                         seen_ids |-> fileAtStart.seen_ids \cup Range(all_new_items)]

C6_Witness ==
    /\ pc = "done"
    /\ outcome = "committed"
    /\ Len(notify_items) < Len(all_new_items)
    /\ fileAtStart.seen_ids # {}
    /\ ~(Range(all_new_items) \subseteq Range(notify_items))

\* C7: when make_session or fetch_news raises (the warm-up request or the
\* list request fails, or the list request is answered 403 or with another
\* status that raise_for_status rejects), the run ends with that error, no
\* email is sent, no detail page is fetched, save_state is not called and
\* state.json is as it was before the run.
C7_FetchFailureFatal ==
    fetch \in FetchFailures =>
        /\ pc = "done"
        /\ outcome = "fetch_failed"
        /\ sent = 0
        /\ saves = 0
        /\ blocks = << >>
        /\ delivery = "none"
        /\ stateFile = fileAtStart

C7_Witness ==
    /\ pc = "done"
    /\ fetch = "403"
    /\ outcome = "fetch_failed"
    /\ fileAtStart.seen_ids # {}

\* C8: save_state is called at most once in a run, as its last step and only
\* after the delivery step finished without raising; when send_email raises,
\* state.json is left as it was, and the next run, if it fetches the same
\* list, computes the same batch again and goes on to notify it.
C8_CommitAfterDeliver ==
    /\ [](/\ saves <= 1
          /\ saves = 1 => (pc = "done" /\ Delivered)
          /\ delivery = "raised" =>
                (pc = "done" /\ saves = 0 /\ stateFile = fileAtStart))
    /\ [][(/\ pc = "fetch"
           /\ last = "send_failed"
           /\ fetch' = "ok"
           /\ items' = lastItems)
          => (pc' = "extract" /\ all_new_items' = pending)]_vars

C8_Witness ==
    /\ pc = "fetch"
    /\ last = "send_failed"
    /\ pending # << >>
    /\ stateFile.seen_ids # {}

\* C9: when the batch is empty (no filtered item is new and force-send is
\* off, or force-send is on and no item matches the headline filter), the
\* run returns without an error, having sent no email, fetched no detail
\* page and written nothing to state.json; and no run goes on with an empty
\* batch.
EmptyBatchCase ==
    /\ fetch = "ok"
    /\ \/ ~HadNew /\ ~force_send
       \/ force_send /\ filtered_items = << >>

C9_EmptyBatchNoOp ==
    /\ EmptyBatchCase =>
        /\ pc = "done"
        /\ outcome = "no_news"
        /\ sent = 0
        /\ saves = 0
        /\ blocks = << >>
        /\ delivery = "none"
        /\ stateFile = fileAtStart
    /\ pc \in {"extract", "commit"} => all_new_items # << >>

C9_Witness ==
    /\ pc = "done"
    /\ outcome = "no_news"
    /\ ~force_send
    /\ filtered_items # << >>
    /\ Len(filtered_items) < Len(items)

\* C10: with a batch to notify, a run under DRY_RUN or without SMTP_HOST
\* sends no email, goes on to the commit, and has the whole batch marked
\* seen in state.json when it ends.
C10_PrintOnlyStillCommits ==
    (all_new_items # << >> /\ delivery \in {"dry_run", "printed"}) =>
        /\ sent = 0
        /\ pc \in {"commit", "done"}
        /\ pc = "done" =>
            (saves = 1 /\ Range(all_new_items) \subseteq stateFile.seen_ids)

\* C11: a detail fetch that fails, or a detail page that yields no field,
\* gives a placeholder block for that item and does not end the run: the
\* loop goes on, the digest has one block per notified item when the
\* delivery step is reached, a run with a batch ends only at or after the
\* delivery step, and a run whose delivery step did not raise commits.
C11_PlaceholderContinues ==
    /\ Len(blocks) <= Len(notify_items)
    /\ page \in {"fetch_failed", "no_fields"} =>
        (blocks # << >> /\ blocks[Len(blocks)] = "placeholder")
    /\ (pc = "commit" \/ delivery # "none") => Len(blocks) = Len(notify_items)
    /\ (pc = "done" /\ fetch = "ok" /\ all_new_items # << >>) => delivery # "none"
    /\ (pc = "done" /\ Delivered) => saves = 1

C11_Witness ==
    /\ pc = "done"
    /\ outcome = "committed"
    /\ blocks = <<"placeholder", "summary">>
    /\ page = "fields"

\* C12: whatever state.json holds that is not an object with a list of
\* strings under seen_ids (no file, no JSON, other JSON), the run starts
\* with an empty seen set and does not end with an error raised while the
\* state is loaded.
C12_CorruptStateRecovery ==
    (pc # "idle" /\ fileAtStart.kind # "object") =>
        (outcome # "load_crashed" /\ seen = {})

\* C13: headline_matches gives true for an empty filter text; otherwise, in
\* mode "contains", true exactly when the filter text occurs in the headline
\* as a run of consecutive characters, and in every other mode ("exact" or
\* unknown) true exactly when the headline equals the filter text.
OccursIn(text, headline) ==
    \E i \in 0..Len(headline), j \in 0..Len(headline) :
        i <= j /\ SubSeq(headline, i + 1, j) = text

C13_HeadlineMatches ==
    call.fn = "headline_matches" =>
        call.result =
            IF call.filter = << >> THEN TRUE
            ELSE IF call.mode = "contains" THEN OccursIn(call.filter, call.headline)
            ELSE call.headline = call.filter

C13_Witness ==
    /\ call.fn = "headline_matches"
    /\ call.mode = "regex"
    /\ call.filter # << >>
    /\ call.headline # call.filter
    /\ OccursIn(call.filter, call.headline)
    /\ call.result = FALSE

\* C14: an item whose headline, title and subject are all absent or blank
\* gets the sentinel headline, and with a non-empty filter text, in every
\* mode, it is not kept by the filter loop.
NoUsableHeadline(item) ==
    \A v \in {item.headline, item.title, item.subject} :
        v = None \/ \A i \in 1..Len(v) : v[i] = " "

C14_SentinelNeverMatches ==
    (call.fn = "filter_item" /\ NoUsableHeadline(call.item) /\ call.filter # << >>) =>
        (call.headline = NoHeadline /\ ~call.result)

\* C15: send_email is called at most once in a run, whatever the flags and
\* the size of the batch.
C15_AtMostOneEmail == sent <= 1

C15_Witness ==
    /\ pc = "done"
    /\ delivery = "sent"
    /\ sent = 1
    /\ Len(notify_items) = 2
    /\ force_send

\* C16: parse_buyback_fields leaves out the key of each label the text
\* lacks (and raises nothing), and the block composed from a FieldMap that
\* has some field has a line for each field it lacks as well, showing it as
\* unavailable.
C16_ExtractionTolerance ==
    call.fn = "compose_block" =>
        /\ call.fields = {k \in FieldKeys : LabelOf(k) \in call.page_text}
        /\ call.fields # {} =>
            \A k \in FieldKeys \ call.fields :
                \E i \in 1..Len(call.block) : k \in call.block[i].empty

\* C17: whatever integer max_new_items is, the notified items are the first
\* items of the batch, in its order, and at most max_new_items of them (none
\* for a negative value); there are no more blocks than notified items; and
\* after the commit every id of the batch is in seen.
C17_Cap ==
    pc \in {"extract", "commit", "done"} /\ all_new_items # << >> =>
        /\ Len(notify_items) <= Len(all_new_items)
        /\ notify_items = SubSeq(all_new_items, 1, Len(notify_items))
        /\ Len(notify_items) <= Max(max_new_items, 0)
        /\ Len(blocks) <= Len(notify_items)
        /\ saves = 1 => Range(all_new_items) \subseteq seen

\* C18: with force-send on, some filtered item and no new one, the batch is
\* the first filtered item alone (the list is in the API's order, latest
\* first), an item whose id is in the loaded seen set, and the run goes on
\* with it through the cap to the delivery step; with a new filtered item
\* the batch is the new filtered items, force-send on or off.
C18_DemoFallback ==
    fetch = "ok" =>
        /\ (~HadNew /\ force_send /\ filtered_items # << >>) =>
            /\ all_new_items = <<filtered_items[1]>>
            /\ filtered_items[1] \in LoadedSeen(fileAtStart)
            /\ notify_items = SliceTo(all_new_items, max_new_items)
            /\ pc \in {"extract", "commit", "done"}
            /\ pc = "done" => delivery # "none"
        /\ HadNew =>
            all_new_items = SelectSeq(filtered_items,
                                      LAMBDA id : id \notin LoadedSeen(fileAtStart))

C18_Witness ==
    /\ DemoRun
    /\ pc = "done"
    /\ delivery = "sent"
    /\ Len(filtered_items) = 2
    /\ filtered_items[1] # filtered_items[2]
    /\ blocks # << >>

\* C19: a run that takes the force-send fallback leaves the seen set as it
\* was: the id of its item is in the loaded seen set, and the seen_ids its
\* commit writes are the ones loaded at the start of the run.
C19_DemoKeepsSeen ==
    (DemoRun /\ pc = "done") =>
        /\ Range(all_new_items) \subseteq LoadedSeen(fileAtStart)
        /\ stateFile.seen_ids = fileAtStart.seen_ids
        /\ saves = 1 =>
            stateFile = [kind |-> "object", seen_ids |-> LoadedSeen(fileAtStart)]

C19_Witness ==
    /\ DemoRun
    /\ pc = "done"
    /\ saves = 1
    /\ Cardinality(fileAtStart.seen_ids) = 2

\* C20: a run with SMTP_TEST=1 calls send_email once and ends, whether the
\* call raises or not and whatever FORCE_SEND and DRY_RUN are: state.json is
\* not loaded, nothing is fetched, save_state is not called and state.json is
\* as it was.
C20_SmtpTestOnly ==
    outcome \in {"smtp_test", "smtp_test_failed"} =>
        /\ pc = "done"
        /\ sent = 1
        /\ saves = 0
        /\ seen = {}
        /\ fetch = "none"
        /\ items = << >>
        /\ blocks = << >>
        /\ delivery = "none"
        /\ stateFile = fileAtStart

C20_Witness ==
    /\ outcome = "smtp_test_failed"
    /\ force_send
    /\ dry_run
    /\ stateFile.seen_ids # {}
====
